---- MODULE Spec2Model ----
(***************************************************************************)
(* A model of src/io_linux.c: the io_uring based completion engine.        *)
(*                                                                         *)
(* The caller drives one engine instance from a single thread; the kernel  *)
(* is the only concurrent actor.  Every API function is modelled as the    *)
(* sequence of its shared-memory accesses (one action per access), with    *)
(* the caller's position held in pc, so that the kernel's posting of       *)
(* completions interleaves with the steps of a call as it does at run      *)
(* time.  The kernel reads the submission ring only inside                 *)
(* io_uring_enter (the engine never sets up IORING_SETUP_SQPOLL, line 41). *)
(*                                                                         *)
(* History (ghost) state, never read by a modelled line of code:           *)
(*   - the fields ctx and slot of a descriptor / request / completion      *)
(*     record: the context and the table slot of the call that wrote it;   *)
(*   - posted, pending, freed, enterLog, call, ret.                        *)
(***************************************************************************)
EXTENDS Integers, Sequences, FiniteSets, Bags, TLC

\* ------------------------------------------------------------------ bounds

\* max_ops: the table capacity handed to io_context_init.
MaxOps == 2
\* log2 of the submission ring capacity the kernel grants (p.sq_entries).
SqOrder == 1

SqEntries == 2 ^ SqOrder
\* The kernel sizes the completion ring at twice the submission ring.
CqEntries == 2 * SqEntries
\* The typed submits that get past both refusals, over a whole run: enough
\* to fill the table and submit once more, and enough to fill the ring.
MaxSubmits == IF MaxOps + 1 > SqEntries THEN MaxOps + 1 ELSE SqEntries
\* The width in bits of `unsigned`, scaled: the ring indices wrap modulo
\* UIntMod.
UIntBits == 16
UIntMod == 2 ^ UIntBits

Slots == 1..MaxOps
\* Caller contexts (the `user` pointers).  The engine only copies them, so
\* the caller is modelled as handing a fresh one to every typed submit.
Users == 1..MaxSubmits
\* Kernel results (cqe->res): a failure and a success.
Results == {-1, 0}

Types == {"IO_RECV", "IO_SEND", "IO_ACCEPT"}

\* The content of caller-owned memory the engine has not written (a value
\* no context and no kernel result takes).
NoVal == -99
NoType == "unset"

\* The address of ops[0] and sizeof(struct io_operation), scaled.
OpsBase == 16
OpSize == 2

VARIABLES
    ops,          \* ioc->ops: slot -> [type, user]
    submissions,  \* ioc->submissions: [head, tail, array, entries]
    completions,  \* ioc->completions: [head, tail, entries]
    inflight,     \* the kernel's requests consumed and not yet completed (a bag)
    pc,           \* the caller's position
    s_op,         \* io_start_*: op (slot index, 0 = NULL)
    s_sqe,        \* io_start_*: sqe
    s_user,       \* io_start_*: user
    s_type,       \* io_start_*: the type the call commits
    s_tail,       \* start_oper: tail
    w_head,       \* io_wait: head
    w_op,         \* io_wait: op
    ev,           \* io_wait: *ev
    call,         \* history: the API function called last
    ret,          \* history: what it returned (io_wait: whether it delivered)
    enterLog,     \* history: the io_uring_enter calls of the last API call
    posted,       \* history: completions posted and not yet consumed, in order
    pending,      \* history: <<context, type>> of submits that returned true
                  \*          and whose Event has not been returned
    freed,        \* history: the slot the last io_wait released, until the
                  \*          next typed submit returns
    nsub,         \* history: the typed submits that got past both refusals
    held,         \* io_context_init: what the call has acquired from the
                  \*          kernel and not released (fd, mappings)
    single_mmap   \* io_context_init: p.features & IORING_FEAT_SINGLE_MMAP

vars == <<ops, submissions, completions, inflight, pc, s_op, s_sqe, s_user,
          s_type, s_tail, w_head, w_op, ev, call, ret, enterLog, posted,
          pending, freed, nsub, held, single_mmap>>

\* ----------------------------------------------------------------- helpers

RECURSIVE BitAnd(_, _)
\* The C operator & on non-negative integers.
BitAnd(a, b) ==
    IF a = 0 \/ b = 0 THEN 0
    ELSE (a % 2) * (b % 2) + 2 * BitAnd(a \div 2, b \div 2)

\* unsigned arithmetic
UAdd(a, b) == (a + b) % UIntMod
USub(a, b) == (a - b + UIntMod) % UIntMod

\* *ioc->submissions.mask and *ioc->completions.mask, as the kernel sets them.
SqMask == SqEntries - 1
CqMask == CqEntries - 1

\* The tag taken one element too far: &ioc->ops[i + 1].
OpAddr_NextElement(i) == OpsBase + i * OpSize

\* (uint64_t) &ioc->ops[i]
OpAddr(i) == OpsBase + (i - 1) * OpSize
\* (struct io_operation *) user_data, as an index into ioc->ops
OpOfTag(t) == ((t - OpsBase) \div OpSize) + 1

NullSqe == [opcode |-> "NOP", user_data |-> 0, ctx |-> 0, slot |-> 0]
NullCqe == [user_data |-> 0, res |-> 0, ctx |-> 0, slot |-> 0]
EvUnset == [user |-> NoVal, type |-> NoType, error |-> FALSE,
            num |-> NoVal, handle |-> NoVal]

OpcodeOf(type) ==
    CASE type = "IO_RECV" -> "READ"
      [] type = "IO_SEND" -> "WRITE"
      [] type = "IO_ACCEPT" -> "ACCEPT"

\* The scan without its test of the type: it returns &ioc->ops[0] always.
alloc_op_NoTest == CHOOSE i \in Slots : \A j \in Slots : i <= j

\* The scan run from the last slot down: the highest idle slot.
alloc_op_LastFit ==
    IF \E i \in Slots : ops[i].type = "IO_VOID"
    THEN CHOOSE i \in Slots :
            /\ ops[i].type = "IO_VOID"
            /\ \A j \in Slots : ops[j].type = "IO_VOID" => i >= j
    ELSE 0

\* alloc_op: the first slot whose type is IO_VOID, 0 (NULL) if there is none.
alloc_op ==
    IF \E i \in Slots : ops[i].type = "IO_VOID"
    THEN CHOOSE i \in Slots :
            /\ ops[i].type = "IO_VOID"
            /\ \A j \in Slots : ops[j].type = "IO_VOID" => i <= j
    ELSE 0

\* The refusal test off by one: tail > head + limit.
RingFull_OffByOne(tail, head) == tail > UAdd(head, SqEntries)

\* start_oper's refusal test.
RingFull(tail, head) == tail >= UAdd(head, SqEntries)

\* ------------------------------------------------------------ initial state

\* The state io_context_init leaves when it returns true: every slot IO_VOID
\* (the user fields are the caller's memory, not yet written), and the rings
\* as the kernel hands them out: zeroed, head = tail = 0. The call holds the
\* descriptor and its mappings (one ring mapping on a kernel with
\* IORING_FEAT_SINGLE_MMAP).
Init ==
    /\ ops = [i \in Slots |-> [type |-> "IO_VOID", user |-> NoVal]]
    /\ submissions = [head |-> 0, tail |-> 0,
                      array |-> [i \in 0..(SqEntries - 1) |-> 0],
                      entries |-> [i \in 0..(SqEntries - 1) |-> NullSqe]]
    /\ completions = [head |-> 0, tail |-> 0,
                      entries |-> [i \in 0..(CqEntries - 1) |-> NullCqe]]
    /\ inflight = EmptyBag
    /\ pc = "idle"
    /\ s_op = 0
    /\ s_sqe = NullSqe
    /\ s_user = NoVal
    /\ s_type = "IO_VOID"
    /\ s_tail = 0
    /\ w_head = 0
    /\ w_op = 0
    /\ ev = EvUnset
    /\ call = "none"
    /\ ret = "none"
    /\ enterLog = << >>
    /\ posted = << >>
    /\ pending = {}
    /\ freed = 0
    /\ nsub = 0
    /\ held = {"fd", "sq_ptr", "sqes"}
    /\ single_mmap = TRUE

\* What a typed submit leaves behind when it returns: its locals are gone.
SubmitLocalsDead ==
    /\ s_op' = 0
    /\ s_sqe' = NullSqe
    /\ s_user' = NoVal
    /\ s_type' = "IO_VOID"
    /\ s_tail' = 0

\* One io_uring_enter call, as the history records it.
EnterCall(to_submit, min_complete, flags) ==
    [to_submit |-> to_submit, min_complete |-> min_complete, flags |-> flags]

\* ------------------------------------------------------------ submission

\* alloc_op returned NULL: the typed submit returns false.
TableRefused ==
    /\ pc' = "idle"
    /\ ret' = "false"
    /\ freed' = 0
    /\ UNCHANGED <<ops, submissions, completions, inflight, s_op, s_sqe,
                   s_user, s_type, s_tail, w_head, w_op, posted, pending,
                   held, single_mmap>>

\* A refusal that has already stored the descriptor (the test made too late).
StartOperRefused_WriteFirst(sqe) ==
    /\ pc' = "idle"
    /\ ret' = "false"
    /\ freed' = 0
    /\ submissions' = [submissions EXCEPT
            !.entries[BitAnd(submissions.tail, SqMask)] = sqe]
    /\ UNCHANGED <<ops, completions, inflight, s_op, s_sqe,
                   s_user, s_type, s_tail, w_head, w_op, posted, pending,
                   held, single_mmap>>

\* start_oper found the ring full: it returns false, and so does the typed
\* submit.
StartOperRefused(sqe) ==
    /\ pc' = "idle"
    /\ ret' = "false"
    /\ freed' = 0
    /\ UNCHANGED <<ops, submissions, completions, inflight, s_op, s_sqe,
                   s_user, s_type, s_tail, w_head, w_op, posted, pending,
                   held, single_mmap>>

\* io_start_recv / io_start_send / io_start_accept up to start_oper's test:
\* alloc_op, the descriptor, the loads of tail and head, the refusal.
TypedStart(name, type) ==
    /\ pc = "idle"
    /\ call' = name
    /\ enterLog' = << >>
    /\ ev' = EvUnset
    /\ LET op == alloc_op
           user == nsub + 1
           sqe == [opcode |-> OpcodeOf(type), user_data |-> OpAddr(op),
                   ctx |-> user, slot |-> op]
       IN  IF op = 0
           THEN TableRefused /\ UNCHANGED nsub
           ELSE IF RingFull(submissions.tail, submissions.head)
           THEN StartOperRefused(sqe) /\ UNCHANGED nsub
           ELSE /\ nsub < MaxSubmits
                /\ nsub' = nsub + 1
                /\ pc' = "so_entry"
                /\ ret' = "running"
                /\ s_op' = op
                /\ s_sqe' = sqe
                /\ s_user' = user
                /\ s_type' = type
                /\ s_tail' = submissions.tail
                /\ UNCHANGED <<ops, submissions, completions, inflight,
                               w_head, w_op, posted, pending, freed,
                               held, single_mmap>>

io_start_recv == TypedStart("io_start_recv", "IO_RECV")

io_start_send == TypedStart("io_start_send", "IO_SEND")

io_start_accept == TypedStart("io_start_accept", "IO_ACCEPT")

\* start_oper: ioc->submissions.entries[index] = sqe
SoWriteEntry ==
    /\ pc = "so_entry"
    /\ submissions' = [submissions EXCEPT
            !.entries[BitAnd(s_tail, SqMask)] = s_sqe]
    /\ pc' = "so_array"
    /\ UNCHANGED <<ops, completions, inflight, s_op, s_sqe, s_user, s_type,
                   s_tail, w_head, w_op, ev, call, ret, enterLog, posted,
                   pending, freed, nsub,
                   held, single_mmap>>

\* The index array forgotten: the descriptor is stored and nothing else.
SoWriteArray_Skipped ==
    /\ pc = "so_array"
    /\ pc' = "so_tail"
    /\ UNCHANGED <<ops, submissions, completions, inflight, s_op, s_sqe,
                   s_user, s_type, s_tail, w_head, w_op, ev, call, ret,
                   enterLog, posted, pending, freed, nsub,
                   held, single_mmap>>

\* start_oper: ioc->submissions.array[index] = index
SoWriteArray ==
    /\ pc = "so_array"
    /\ submissions' = [submissions EXCEPT
            !.array[BitAnd(s_tail, SqMask)] = BitAnd(s_tail, SqMask)]
    /\ pc' = "so_tail"
    /\ UNCHANGED <<ops, completions, inflight, s_op, s_sqe, s_user, s_type,
                   s_tail, w_head, w_op, ev, call, ret, enterLog, posted,
                   pending, freed, nsub,
                   held, single_mmap>>

\* start_oper: atomic_store(ioc->submissions.tail, tail+1)
SoStoreTail ==
    /\ pc = "so_tail"
    /\ submissions' = [submissions EXCEPT !.tail = UAdd(s_tail, 1)]
    /\ pc' = "so_enter"
    /\ UNCHANGED <<ops, completions, inflight, s_op, s_sqe, s_user, s_type,
                   s_tail, w_head, w_op, ev, call, ret, enterLog, posted,
                   pending, freed, nsub,
                   held, single_mmap>>

\* The kernel inside io_uring_enter(fd, 1, 0, 0): it takes one descriptor,
\* the oldest the tail covers, through the index array, and advances head.
KernelConsumeOne ==
    LET pos == BitAnd(submissions.head, SqMask)
        req == submissions.entries[submissions.array[pos]]
    IN  IF submissions.head = submissions.tail
        THEN UNCHANGED <<submissions, inflight>>
        ELSE /\ inflight' = inflight (+) SetToBag({req})
             /\ submissions' = [submissions EXCEPT
                    !.head = UAdd(submissions.head, 1)]

\* The notify made a submit-and-wait: io_uring_enter(fd, 1, 1, GETEVENTS).
SoEnterOk_Waits ==
    /\ pc = "so_enter"
    /\ enterLog' = Append(enterLog, EnterCall(1, 1, 1))
    /\ KernelConsumeOne
    /\ pc' = "commit"
    /\ UNCHANGED <<ops, completions, s_op, s_sqe, s_user, s_type, s_tail,
                   w_head, w_op, ev, call, ret, posted, pending, freed,
                   nsub,
                   held, single_mmap>>

\* start_oper: io_uring_enter(ioc->handle, 1, 0, 0) returned >= 0.
SoEnterOk ==
    /\ pc = "so_enter"
    /\ enterLog' = Append(enterLog, EnterCall(1, 0, 0))
    /\ KernelConsumeOne
    /\ pc' = "commit"
    /\ UNCHANGED <<ops, completions, s_op, s_sqe, s_user, s_type, s_tail,
                   w_head, w_op, ev, call, ret, posted, pending, freed, nsub,
                   held, single_mmap>>

\* The kind committed before the ring write and not taken back when the
\* notify fails.
SoEnterFail_KeepsKind ==
    /\ pc = "so_enter"
    /\ enterLog' = Append(enterLog, EnterCall(1, 0, 0))
    /\ ops' = [ops EXCEPT ![s_op] = [type |-> s_type, user |-> s_user]]
    /\ pc' = "idle"
    /\ ret' = "false"
    /\ freed' = 0
    /\ SubmitLocalsDead
    /\ UNCHANGED <<submissions, completions, inflight, w_head, w_op,
                   ev, call, posted, pending, nsub,
                   held, single_mmap>>

\* start_oper: io_uring_enter returned < 0 (the kernel took nothing):
\* start_oper returns false, and so does the typed submit.
SoEnterFail ==
    /\ pc = "so_enter"
    /\ enterLog' = Append(enterLog, EnterCall(1, 0, 0))
    /\ pc' = "idle"
    /\ ret' = "false"
    /\ freed' = 0
    /\ SubmitLocalsDead
    /\ UNCHANGED <<ops, submissions, completions, inflight, w_head, w_op,
                   ev, call, posted, pending, nsub,
                   held, single_mmap>>

\* io_start_*: op->user = user; op->type = IO_...; return true
Commit ==
    /\ pc = "commit"
    /\ ops' = [ops EXCEPT ![s_op] = [type |-> s_type, user |-> s_user]]
    /\ pc' = "idle"
    /\ ret' = "true"
    /\ freed' = 0
    /\ pending' = pending \cup {<<s_user, s_type>>}
    /\ SubmitLocalsDead
    /\ UNCHANGED <<submissions, completions, inflight, w_head, w_op, ev,
                   call, enterLog, posted, nsub,
                   held, single_mmap>>

\* ------------------------------------------------------------ completion

\* The blocking call made whatever the ring holds.
IoWaitBegin_AlwaysEnters ==
    /\ pc = "idle"
    /\ call' = "io_wait"
    /\ ret' = "running"
    /\ enterLog' = << >>
    /\ ev' = EvUnset
    /\ w_head' = completions.head
    /\ pc' = "w_enter"
    /\ UNCHANGED <<ops, submissions, completions, inflight, s_op, s_sqe,
                   s_user, s_type, s_tail, w_op, posted, pending, freed,
                   nsub,
                   held, single_mmap>>

\* io_wait: the loads of completions.head and completions.tail and the test
\* head == tail.  *ev is the caller's memory: nothing of it is written yet.
IoWaitBegin ==
    /\ pc = "idle"
    /\ call' = "io_wait"
    /\ ret' = "running"
    /\ enterLog' = << >>
    /\ ev' = EvUnset
    /\ w_head' = completions.head
    /\ pc' = IF completions.head = completions.tail THEN "w_enter" ELSE "w_read"
    /\ UNCHANGED <<ops, submissions, completions, inflight, s_op, s_sqe,
                   s_user, s_type, s_tail, w_op, posted, pending, freed, nsub,
                   held, single_mmap>>

\* io_wait: io_uring_enter(fd, 0, 1, IORING_ENTER_GETEVENTS) returned >= 0,
\* which the kernel does once the completion ring holds a record.
WEnterOk ==
    /\ pc = "w_enter"
    /\ completions.head # completions.tail
    /\ enterLog' = Append(enterLog, EnterCall(0, 1, 1))
    /\ pc' = "w_read"
    /\ UNCHANGED <<ops, submissions, completions, inflight, s_op, s_sqe,
                   s_user, s_type, s_tail, w_head, w_op, ev, call, ret,
                   posted, pending, freed, nsub,
                   held, single_mmap>>

\* The failed blocking call consuming a record all the same.
WEnterFail_Consume ==
    /\ pc = "w_enter"
    /\ enterLog' = Append(enterLog, EnterCall(0, 1, 1))
    /\ ev' = [ev EXCEPT !.error = TRUE]
    /\ completions' = [completions EXCEPT !.head = UAdd(w_head, 1)]
    /\ pc' = "idle"
    /\ ret' = "void"
    /\ w_head' = 0
    /\ UNCHANGED <<ops, submissions, inflight, s_op, s_sqe,
                   s_user, s_type, s_tail, w_op, call, posted, pending,
                   freed, nsub,
                   held, single_mmap>>

\* io_wait: the blocking io_uring_enter returned < 0: ev->error = true; return
WEnterFail ==
    /\ pc = "w_enter"
    /\ enterLog' = Append(enterLog, EnterCall(0, 1, 1))
    /\ ev' = [ev EXCEPT !.error = TRUE]
    /\ pc' = "idle"
    /\ ret' = "void"
    /\ w_head' = 0
    /\ UNCHANGED <<ops, submissions, completions, inflight, s_op, s_sqe,
                   s_user, s_type, s_tail, w_op, call, posted, pending,
                   freed, nsub,
                   held, single_mmap>>

\* The record io_wait reads: &ioc->completions.entries[head & mask]
WaitCqe == completions.entries[BitAnd(w_head, CqMask)]

\* What a read of op->user yields: the value stored, or anything at all when
\* the slot was never committed (the caller's array is not initialised).
UserRead(op) ==
    IF ops[op].user = NoVal THEN Users \cup {NoVal} ELSE {ops[op].user}

\* The result field written without looking at ev->error.
EventOf_NoErrorTest(cqe, op, user) ==
    LET type == ops[op].type
    IN  [user |-> user,
         type |-> type,
         error |-> cqe.res < 0,
         num |-> IF type \in {"IO_RECV", "IO_SEND"} THEN cqe.res ELSE ev.num,
         handle |-> IF type = "IO_ACCEPT" THEN cqe.res ELSE ev.handle]

\* The Event io_wait fills from the record cqe and the slot op.
EventOf(cqe, op, user) ==
    LET type == ops[op].type
        error == cqe.res < 0
    IN  [user |-> user,
         type |-> type,
         error |-> error,
         num |-> IF ~error /\ type \in {"IO_RECV", "IO_SEND"}
                 THEN cqe.res ELSE ev.num,
         handle |-> IF ~error /\ type = "IO_ACCEPT"
                    THEN cqe.res ELSE ev.handle]

\* io_wait: cqe = ...; op = cqe->user_data; ev->user, ev->type, ev->error and
\* the result field.
WRead ==
    /\ pc = "w_read"
    /\ LET op == OpOfTag(WaitCqe.user_data)
       IN  /\ w_op' = op
           /\ \E u \in UserRead(op) : ev' = EventOf(WaitCqe, op, u)
    /\ pc' = "w_free"
    /\ UNCHANGED <<ops, submissions, completions, inflight, s_op, s_sqe,
                   s_user, s_type, s_tail, w_head, call, ret, enterLog,
                   posted, pending, freed, nsub,
                   held, single_mmap>>

\* io_wait: op->type = IO_VOID
WFree ==
    /\ pc = "w_free"
    /\ ops' = [ops EXCEPT ![w_op].type = "IO_VOID"]
    /\ freed' = w_op
    /\ pc' = "w_head"
    /\ UNCHANGED <<submissions, completions, inflight, s_op, s_sqe, s_user,
                   s_type, s_tail, w_head, w_op, ev, call, ret, enterLog,
                   posted, pending, nsub,
                   held, single_mmap>>

\* The head stored as the tail: every pending record dropped at once.
WStoreHead_Drain ==
    /\ pc = "w_head"
    /\ completions' = [completions EXCEPT !.head = completions.tail]
    /\ pc' = "idle"
    /\ ret' = "void"
    /\ posted' = << >>
    /\ pending' = pending \ {<<ev.user, ev.type>>}
    /\ w_head' = 0
    /\ w_op' = 0
    /\ UNCHANGED <<ops, submissions, inflight, s_op, s_sqe, s_user, s_type,
                   s_tail, ev, call, enterLog, freed, nsub,
                   held, single_mmap>>

\* io_wait: atomic_store(ioc->completions.head, head+1); return
WStoreHead ==
    /\ pc = "w_head"
    /\ completions' = [completions EXCEPT !.head = UAdd(w_head, 1)]
    /\ pc' = "idle"
    /\ ret' = "void"
    /\ posted' = Tail(posted)
    /\ pending' = pending \ {<<ev.user, ev.type>>}
    /\ w_head' = 0
    /\ w_op' = 0
    /\ UNCHANGED <<ops, submissions, inflight, s_op, s_sqe, s_user, s_type,
                   s_tail, ev, call, enterLog, freed, nsub,
                   held, single_mmap>>

\* ---------------------------------------------------------------- kernel

\* The kernel finishes a request it holds, in any order, with any result, and
\* posts the completion record (the request's user_data, the result) at the
\* completion tail; it keeps the request while the completion ring is full.
KernelComplete(req, res) ==
    /\ BagIn(req, inflight)
    /\ USub(completions.tail, completions.head) < CqEntries
    /\ LET cqe == [user_data |-> req.user_data, res |-> res,
                   ctx |-> req.ctx, slot |-> req.slot]
       IN  /\ completions' = [completions EXCEPT
                    !.entries[BitAnd(completions.tail, CqMask)] = cqe,
                    !.tail = UAdd(completions.tail, 1)]
           /\ posted' = Append(posted, cqe)
    /\ inflight' = inflight (-) SetToBag({req})
    /\ UNCHANGED <<ops, submissions, pc, s_op, s_sqe, s_user, s_type, s_tail,
                   w_head, w_op, ev, call, ret, enterLog, pending, freed, nsub,
                   held, single_mmap>>

\* ----------------------------------------------------------- specification

Next ==
    \/ io_start_recv
    \/ io_start_send
    \/ io_start_accept
    \/ SoWriteEntry
    \/ SoWriteArray
    \/ SoStoreTail
    \/ SoEnterOk
    \/ SoEnterFail
    \/ Commit
    \/ IoWaitBegin
    \/ WEnterOk
    \/ WEnterFail
    \/ WRead
    \/ WFree
    \/ WStoreHead
    \/ \E req \in BagToSet(inflight), res \in Results : KernelComplete(req, res)

Spec == Init /\ [][Next]_vars

\* Every variable stays in its domain; every tag read resolves to a slot.
TypeOK ==
    /\ \A i \in Slots : ops[i].type \in Types \cup {"IO_VOID"}
    /\ submissions.head \in 0..(UIntMod - 1)
    /\ submissions.tail \in 0..(UIntMod - 1)
    /\ completions.head \in 0..(UIntMod - 1)
    /\ completions.tail \in 0..(UIntMod - 1)
    /\ pc \in {"idle", "so_entry", "so_array", "so_tail", "so_enter",
               "commit", "w_enter", "w_read", "w_free", "w_head"}
    /\ pc = "w_read" => OpOfTag(WaitCqe.user_data) \in Slots
    /\ Len(posted) = USub(completions.tail, completions.head)
    /\ held \subseteq {"fd", "sq_ptr", "cq_ptr", "sqes"}
    /\ single_mmap \in BOOLEAN

\* ------------------------------------------------------- shared vocabulary

SubmitNames == {"io_start_recv", "io_start_send", "io_start_accept"}
WaitPcs == {"w_enter", "w_read", "w_free", "w_head"}

\* A step of the caller (the kernel's steps leave all of these alone).
CallerStep == <<pc, call, ret, enterLog>>' # <<pc, call, ret, enterLog>>

\* The descriptors the submission ring holds that the kernel has not taken.
SqWindow ==
    {submissions.entries[submissions.array[
            BitAnd(UAdd(submissions.head, k), SqMask)]] :
        k \in 0..(USub(submissions.tail, submissions.head) - 1)}

\* How many requests carry the tag: written and not taken, taken and not
\* completed, completed and not consumed by io_wait.
TagCount(tag) ==
    Cardinality({k \in 0..(USub(submissions.tail, submissions.head) - 1) :
        submissions.entries[submissions.array[
            BitAnd(UAdd(submissions.head, k), SqMask)]].user_data = tag})
    + BagCardinality([r \in {q \in BagToSet(inflight) : q.user_data = tag}
                        |-> inflight[r]])
    + Cardinality({k \in 1..Len(posted) : posted[k].user_data = tag})

\* Nothing is with the kernel and nothing waits in the completion ring.
Quiescent ==
    /\ pc = "idle"
    /\ inflight = EmptyBag
    /\ completions.head = completions.tail

\* ---------------------------------------------------------------- claims

\* C1: every typed submit that returned true with context c yields exactly
\* one Event with context c and the kind of the call: an Event io_wait has
\* filled from a completion belongs to a submit that returned true and has
\* not been delivered before, and once the kernel has completed all it took
\* and io_wait has consumed all of it, no such submit is left undelivered.
C1_ExactlyOneEvent ==
    /\ pc \in {"w_free", "w_head"} => <<ev.user, ev.type>> \in pending
    /\ Quiescent => pending = {}

\* C2: no two outstanding operations share a table slot: at most one request
\* with a slot's tag is outstanding, and a slot is handed to a submit only
\* when no request with its tag is.
C2_NoSharedSlot ==
    /\ \A i \in Slots : TagCount(OpAddr(i)) <= 1
    /\ pc = "so_entry" => TagCount(OpAddr(s_op)) = 0

\* Every slot is taken.
TableFull == \A i \in Slots : ops[i].type # "IO_VOID"

\* A typed submit is called and returns in the same step: it was refused
\* before start_oper wrote anything.
RefusalStep ==
    /\ CallerStep
    /\ pc = "idle"
    /\ pc' = "idle"
    /\ call' \in SubmitNames

\* C3: a typed submit refused because no slot is idle or because the
\* submission ring is full leaves both rings and every slot's kind and
\* context as they were and calls io_uring_enter not once; and a typed
\* submit returns this early only for one of these two reasons.
C3_RefusalFrame ==
    [][RefusalStep =>
        /\ TableFull \/ RingFull(submissions.tail, submissions.head)
        /\ ret' = "false"
        /\ submissions' = submissions
        /\ completions' = completions
        /\ ops' = ops
        /\ inflight' = inflight
        /\ enterLog' = << >>]_vars

\* A typed submit has just been refused for a full ring, a slot being idle.
C3_Witness ==
    /\ pc = "idle"
    /\ call \in SubmitNames
    /\ ret = "false"
    /\ enterLog = << >>
    /\ ~TableFull
    /\ RingFull(submissions.tail, submissions.head)
    /\ USub(submissions.tail, submissions.head) = SqEntries

\* The steps of one io_wait call, as the caller takes them.
WaitReadStep == pc = "w_read" /\ pc' = "w_free"
WaitFreeStep == pc = "w_free" /\ pc' = "w_head"
WaitStoreStep == pc = "w_head" /\ pc' = "idle"

\* C4: an io_wait call whose blocking call does not fail advances the
\* completion head by exactly one, whatever is pending, and stores it last:
\* after the Event has been filled from the record at the old head and from
\* the slot its tag names, and after that slot has been set idle.  The call
\* changes no other slot and no completion record.
C4_OnePerWait ==
    /\ [](pc \in {"w_read", "w_free", "w_head"} =>
            /\ w_head = completions.head
            /\ completions.head # completions.tail)
    /\ [](pc = "w_head" =>
            /\ ops[w_op].type = "IO_VOID"
            /\ w_op = OpOfTag(WaitCqe.user_data)
            /\ ev.error = (WaitCqe.res < 0)
            /\ ev.type # NoType)
    /\ [][/\ completions.head' # completions.head => WaitStoreStep
          /\ WaitReadStep =>
                /\ ev'.type = ops[OpOfTag(WaitCqe.user_data)].type
                /\ ev'.user \in UserRead(OpOfTag(WaitCqe.user_data))
                /\ ev'.error = (WaitCqe.res < 0)
                /\ UNCHANGED <<ops, completions>>
          /\ WaitFreeStep =>
                /\ \A i \in Slots \ {w_op} : ops'[i] = ops[i]
                /\ ops'[w_op].user = ops[w_op].user
                /\ UNCHANGED <<ev, completions>>
          /\ WaitStoreStep =>
                /\ completions'.head = UAdd(completions.head, 1)
                /\ completions'.tail = completions.tail
                /\ completions'.entries = completions.entries
                /\ UNCHANGED <<ev, ops>>]_vars

\* An io_wait has returned an Event and left a later completion pending.
C4_Witness ==
    /\ pc = "idle"
    /\ call = "io_wait"
    /\ ev.type \in Types
    /\ enterLog = << >>
    /\ Len(posted) >= 1
    /\ completions.head # completions.tail

\* A typed submit is called (whether it is refused or goes on).
TypedCallStep ==
    /\ CallerStep
    /\ pc = "idle"
    /\ pc' \in {"idle", "so_entry"}
    /\ call' \in SubmitNames

\* A typed submit returns.
TypedReturnStep ==
    /\ CallerStep
    /\ pc \in {"idle", "so_enter", "commit"}
    /\ pc' = "idle"
    /\ call' \in SubmitNames

\* The table was full when the last io_wait released slot `freed`, and no
\* typed submit has returned since: `freed` is the one idle slot.
FreedFromFull ==
    /\ freed # 0
    /\ ops[freed].type = "IO_VOID"
    /\ \A i \in Slots \ {freed} : ops[i].type # "IO_VOID"

\* The parts of C5 the code and the claim agree on: at most MaxOps submits
\* are outstanding, and a typed submit called on a full table returns false.
C5_Admission ==
    /\ [](Cardinality(pending) <= MaxOps)
    /\ [][TypedCallStep /\ TableFull => pc' = "idle" /\ ret' = "false"]_vars

\* C5 as stated: at most MaxOps submits are outstanding, a typed submit on a
\* full table returns false, and the typed submit that follows the io_wait
\* which released a slot of the full table returns true, on that slot.
C5_NextSubmitSucceeds ==
    /\ C5_Admission
    /\ [][TypedReturnStep /\ FreedFromFull =>
            ret' = "true" /\ ops'[freed].type # "IO_VOID"]_vars

\* C5 amended: ... the typed submit that follows picks the slot io_wait
\* released; it returns false if start_oper finds the ring full or if
\* io_uring_enter fails, and true, with that slot committed, otherwise.
C5_NextSubmitPicksFreed ==
    /\ C5_Admission
    /\ [][TypedCallStep /\ FreedFromFull =>
            IF RingFull(submissions.tail, submissions.head)
            THEN pc' = "idle" /\ ret' = "false"
            ELSE pc' = "so_entry" /\ s_op' = freed]_vars
    /\ [][TypedReturnStep /\ FreedFromFull =>
            IF pc = "commit"
            THEN ret' = "true" /\ ops'[freed].type = s_type /\ s_op = freed
            ELSE ret' = "false" /\ ops' = ops]_vars

\* The submit after the io_wait that released the last slot of a full table
\* is about to commit that slot.
C5_Witness ==
    /\ pc = "commit"
    /\ FreedFromFull
    /\ s_op = freed
    /\ freed = MaxOps
    /\ Cardinality(pending) = MaxOps - 1

\* C6: successive io_wait calls return the completions in the order the
\* kernel posted them; the Event carries the context given to the submit
\* that wrote the request, and for a receive or send that did not fail the
\* byte count the kernel put in that record.
C6_ArrivalOrder ==
    pc \in {"w_free", "w_head"} =>
        /\ WaitCqe = Head(posted)
        /\ ev.user = Head(posted).ctx
        /\ ev.error = (Head(posted).res < 0)
        /\ (~ev.error /\ ev.type \in {"IO_RECV", "IO_SEND"}) =>
                ev.num = Head(posted).res

WaitFailStep == pc = "w_enter" /\ pc' = "idle"

\* C8: when io_wait finds the completion ring empty and its blocking call
\* fails, the Event has error set and neither kind nor context written, and
\* the call has changed neither the completion head or tail nor any slot:
\* the next io_wait starts from the same head.
C8_WaitFailure ==
    /\ [](pc = "w_enter" => w_head = completions.head /\ ev = EvUnset)
    /\ [][/\ WaitFailStep =>
                /\ ev' = [EvUnset EXCEPT !.error = TRUE]
                /\ UNCHANGED <<completions, ops, posted, submissions,
                               inflight, pending>>
          /\ (pc = "idle" /\ pc' \in {"w_enter", "w_read"}) =>
                /\ w_head' = completions.head
                /\ UNCHANGED <<completions, ops, posted>>]_vars

\* io_wait has returned from a failed blocking call while a request was
\* with the kernel.
C8_Witness ==
    /\ pc = "idle"
    /\ call = "io_wait"
    /\ ev = [EvUnset EXCEPT !.error = TRUE]
    /\ enterLog = <<EnterCall(0, 1, 1)>>
    /\ inflight # EmptyBag
    /\ completions.head = completions.tail

\* C9: the tag start_oper writes names the slot alloc_op returned to that
\* call, the kernel's completion record carries it unchanged, and io_wait
\* resolves it to that very slot.
C9_TagRoundTrip ==
    /\ pc \in {"so_entry", "so_array", "so_tail", "so_enter"} =>
            /\ s_op \in Slots
            /\ s_sqe.slot = s_op
            /\ OpOfTag(s_sqe.user_data) = s_op
    /\ pc \in {"so_array", "so_tail", "so_enter"} =>
            submissions.entries[BitAnd(s_tail, SqMask)] = s_sqe
    /\ \A r \in SqWindow \cup BagToSet(inflight) :
            r.slot \in Slots /\ OpOfTag(r.user_data) = r.slot
    /\ \A k \in 1..Len(posted) :
            posted[k].slot \in Slots
            /\ OpOfTag(posted[k].user_data) = posted[k].slot
    /\ pc \in {"w_free", "w_head"} =>
            /\ WaitCqe.user_data = OpAddr(Head(posted).slot)
            /\ w_op = Head(posted).slot

\* io_wait has resolved the completion of a request submitted on the last
\* slot of the table.
C9_Witness ==
    /\ pc = "w_head"
    /\ w_op = MaxOps
    /\ Head(posted).slot = MaxOps
    /\ ops[w_op].user = Head(posted).ctx

\* The positions of the submission ring that hold a descriptor the kernel
\* has not taken.
SqLive ==
    {BitAnd(UAdd(submissions.head, k), SqMask) :
        k \in 0..(USub(submissions.tail, submissions.head) - 1)}

\* C10: the submission ring never holds more than its capacity
\* (tail - head <= capacity), and start_oper writes a descriptor and an
\* index-array entry only at tail & mask, a position that holds nothing the
\* kernel has yet to take.
C10_RingBound ==
    /\ [](USub(submissions.tail, submissions.head) <= SqEntries)
    /\ [](pc \in {"so_entry", "so_array", "so_tail"} =>
            /\ s_tail = submissions.tail
            /\ BitAnd(s_tail, SqMask) \notin SqLive)
    /\ [][/\ submissions'.entries # submissions.entries =>
                /\ pc = "so_entry"
                /\ \A i \in 0..(SqEntries - 1) \ {BitAnd(s_tail, SqMask)} :
                        submissions'.entries[i] = submissions.entries[i]
          /\ submissions'.array # submissions.array =>
                /\ pc = "so_array"
                /\ \A i \in 0..(SqEntries - 1) \ {BitAnd(s_tail, SqMask)} :
                        submissions'.array[i] = submissions.array[i]
          /\ submissions'.tail # submissions.tail =>
                /\ pc = "so_tail"
                /\ submissions'.tail = UAdd(submissions.tail, 1)]_vars

\* start_oper has written the last free position of a ring whose other
\* positions hold descriptors the kernel has not taken.
C10_Witness ==
    /\ pc = "so_array"
    /\ USub(submissions.tail, submissions.head) = SqEntries - 1
    /\ SqLive # {}

\* The caller is inside a typed submit, past both refusals.
SubmitPcs == {"so_entry", "so_array", "so_tail", "so_enter", "commit"}

\* C11: a typed submit that returns false, for whatever reason (no idle
\* slot, ring full, io_uring_enter failing after the descriptor was
\* written), leaves every slot with the kind it had: the slot alloc_op
\* picked stays idle until the commit, and a slot's kind becomes non-idle
\* only in the step that returns true.
C11_NoSlotLeak ==
    /\ [](pc \in SubmitPcs => s_op \in Slots /\ ops[s_op].type = "IO_VOID")
    /\ [][/\ (TypedReturnStep /\ ret' = "false") => ops' = ops
          /\ (\E i \in Slots : /\ ops'[i].type # ops[i].type
                               /\ ops'[i].type # "IO_VOID") =>
                pc = "commit" /\ pc' = "idle" /\ ret' = "true"]_vars

\* A typed submit has returned false after its io_uring_enter failed, and
\* the slot it had picked is idle.
C11_Witness ==
    /\ pc = "idle"
    /\ call \in SubmitNames
    /\ ret = "false"
    /\ enterLog = <<EnterCall(1, 0, 0)>>
    /\ submissions.tail # submissions.head
    /\ \E r \in SqWindow : ops[r.slot].type = "IO_VOID"

\* The ring positions the tail covers: what the kernel may read.
SqCovered ==
    {UAdd(submissions.head, k) :
        k \in 0..(USub(submissions.tail, submissions.head) - 1)}

\* C13: the kernel only ever sees complete entries: at every point of
\* start_oper, whatever the kernel does meanwhile, each position the tail
\* covers holds a whole descriptor (an opcode, the tag of a slot) and an
\* index-array entry equal to the position; the position being written is
\* not covered until the tail store, which comes after both writes and is
\* the last store before io_uring_enter.
C13_CompleteEntries ==
    /\ [](\A t \in SqCovered :
            LET pos == BitAnd(t, SqMask)
            IN  /\ submissions.array[pos] = pos
                /\ submissions.entries[pos].opcode \in
                        {"READ", "WRITE", "ACCEPT"}
                /\ OpOfTag(submissions.entries[pos].user_data) \in Slots)
    /\ [](pc \in {"so_entry", "so_array", "so_tail"} =>
            /\ submissions.tail = s_tail
            /\ s_tail \notin SqCovered)
    /\ [](pc = "so_tail" =>
            /\ submissions.entries[BitAnd(s_tail, SqMask)] = s_sqe
            /\ submissions.array[BitAnd(s_tail, SqMask)] =
                    BitAnd(s_tail, SqMask))
    /\ [][submissions'.tail # submissions.tail =>
            /\ pc = "so_tail"
            /\ pc' = "so_enter"
            /\ submissions'.entries = submissions.entries
            /\ submissions'.array = submissions.array
            /\ enterLog' = << >>]_vars
    /\ [][(pc = "so_enter" /\ pc' # pc) =>
            /\ submissions'.entries = submissions.entries
            /\ submissions'.array = submissions.array
            /\ submissions'.tail = submissions.tail]_vars

\* The tail covers the second position of the ring, written by the call
\* that is about to notify the kernel, while the kernel holds a request.
C13_Witness ==
    /\ pc = "so_enter"
    /\ BitAnd(s_tail, SqMask) = 1
    /\ s_tail \in SqCovered
    /\ submissions.array[1] = 1
    /\ inflight # EmptyBag

\* C14: an Event io_wait returns from a completion has kind receive, send
\* or accept, never idle: the slot the tag resolves to is non-idle when
\* io_wait reads it.
C14_NeverIdleEvent ==
    /\ pc = "w_read" => ops[OpOfTag(WaitCqe.user_data)].type \in Types
    /\ pc \in {"w_free", "w_head"} => ev.type \in Types

\* C15: a typed submit that returns false causes no kernel operation: the
\* submission tail is what it was before the call, and every request the
\* kernel has taken was written by a call that went on to return true.
C15_FalseSubmitsNothing ==
    /\ [](\A r \in BagToSet(inflight) :
            \/ pc = "commit" /\ r.ctx = s_user
            \/ \E i \in Slots : ops[i].type # "IO_VOID" /\ ops[i].user = r.ctx)
    /\ [][(TypedReturnStep /\ ret' = "false") =>
            submissions'.tail =
                IF pc = "so_enter" THEN s_tail ELSE submissions.tail]_vars

\* C17: a typed submit that gets past both refusals advances the tail by
\* one and then calls io_uring_enter once, with to_submit 1, min_complete 0
\* and no flag, so without waiting for any completion; it makes no other
\* kernel call, and no call notifies for another: one notify for each
\* descriptor written.
C17_OneNotifyPerSubmit ==
    /\ [](pc \in {"so_entry", "so_array", "so_tail", "so_enter"} =>
            enterLog = << >>)
    /\ [](pc = "so_enter" => submissions.tail = UAdd(s_tail, 1))
    /\ [](pc = "commit" => enterLog = <<EnterCall(1, 0, 0)>>)
    /\ [][/\ (pc = "so_enter" /\ pc' # pc) =>
                /\ enterLog' = <<EnterCall(1, 0, 0)>>
                /\ pc' \in {"commit", "idle"}
                /\ completions' = completions
          /\ (pc \in SubmitPcs \ {"so_enter"} /\ pc' # pc) =>
                enterLog' = enterLog
          /\ (TypedReturnStep /\ pc # "idle") =>
                enterLog' = <<EnterCall(1, 0, 0)>>]_vars

\* The second typed submit has returned true with its own single notify,
\* the kernel having two requests and no completion posted.
C17_Witness ==
    /\ pc = "idle"
    /\ call \in SubmitNames
    /\ ret = "true"
    /\ enterLog = <<EnterCall(1, 0, 0)>>
    /\ nsub = 2
    /\ submissions.head = 2
    /\ BagCardinality(inflight) = 2
    /\ posted = << >>

\* C18: io_wait makes the blocking kernel call exactly when the completion
\* head equals the completion tail as the call begins; with a completion
\* pending it returns that completion's Event without a kernel call.
C18_BlocksOnlyWhenEmpty ==
    /\ [](pc = "w_enter" => enterLog = << >>)
    /\ [][/\ (pc = "idle" /\ pc' \in WaitPcs) =>
                /\ enterLog' = << >>
                /\ pc' = IF completions.head = completions.tail
                         THEN "w_enter" ELSE "w_read"
          /\ (pc = "w_enter" /\ pc' # pc) =>
                enterLog' = <<EnterCall(0, 1, 1)>>
          /\ (pc \in {"w_read", "w_free", "w_head"} /\ pc' # pc) =>
                enterLog' = enterLog
          /\ (WaitStoreStep /\ enterLog = << >>) =>
                /\ ev.type # NoType
                /\ WaitCqe = Head(posted)]_vars

\* io_wait, begun with a completion pending, is about to return its Event
\* and has made no kernel call.
C18_Witness ==
    /\ pc = "w_head"
    /\ enterLog = << >>
    /\ ev.type \in Types
    /\ ev.user = Head(posted).ctx

\* The lowest idle slot, 0 when the table is full.
FirstIdle ==
    IF TableFull THEN 0
    ELSE CHOOSE i \in Slots :
            /\ ops[i].type = "IO_VOID"
            /\ \A j \in 1..(i - 1) : ops[j].type # "IO_VOID"

\* C19: allocation is first-fit: a typed submit that succeeds commits the
\* lowest-indexed slot that was idle when it was called and changes no other
\* slot; io_wait's release only sets the kind of its slot to idle.
C19_FirstFit ==
    /\ [](pc \in SubmitPcs => s_op = FirstIdle)
    /\ [][/\ (pc = "idle" /\ pc' = "so_entry") => s_op' = FirstIdle
          /\ (pc = "commit" /\ pc' # pc) =>
                /\ ret' = "true"
                /\ ops' = [ops EXCEPT
                        ![s_op] = [type |-> s_type, user |-> s_user]]
                /\ \A j \in 1..(s_op - 1) : ops'[j].type # "IO_VOID"
          /\ (pc \in SubmitPcs \ {"commit"} /\ pc' # pc) => ops' = ops
          /\ WaitFreeStep =>
                ops' = [ops EXCEPT ![w_op].type = "IO_VOID"]
          /\ (pc \in WaitPcs \ {"w_free"} /\ pc' # pc) => ops' = ops]_vars

\* A typed submit is about to commit the first slot, released by io_wait,
\* while the last slot is still taken.
C19_Witness ==
    /\ pc = "commit"
    /\ s_op = 1
    /\ freed = 1
    /\ ops[MaxOps].type # "IO_VOID"

\* Index values from which a few submits carry tail, head or head + capacity
\* past zero; 0 is the value io_context_init leaves.
WrapHeads == {USub(0, k) : k \in 0..(SqEntries + MaxSubmits)}

\* The engine after h operations have been submitted, completed and returned:
\* both rings empty, their indices at h, every slot idle.
RingInit ==
    \E h \in WrapHeads :
        /\ ops = [i \in Slots |-> [type |-> "IO_VOID", user |-> NoVal]]
        /\ submissions = [head |-> h, tail |-> h,
                          array |-> [i \in 0..(SqEntries - 1) |-> 0],
                          entries |-> [i \in 0..(SqEntries - 1) |-> NullSqe]]
        /\ completions = [head |-> h, tail |-> h,
                          entries |-> [i \in 0..(CqEntries - 1) |-> NullCqe]]
        /\ inflight = EmptyBag
        /\ pc = "idle"
        /\ s_op = 0
        /\ s_sqe = NullSqe
        /\ s_user = NoVal
        /\ s_type = "IO_VOID"
        /\ s_tail = 0
        /\ w_head = 0
        /\ w_op = 0
        /\ ev = EvUnset
        /\ call = "none"
        /\ ret = "none"
        /\ enterLog = << >>
        /\ posted = << >>
        /\ pending = {}
        /\ freed = 0
        /\ nsub = 0
        /\ held = {"fd", "sq_ptr", "sqes"}
        /\ single_mmap = TRUE

RingSpec == RingInit /\ [][Next]_vars

\* C16: with the indices wrapping modulo 2^w, start_oper refuses for
\* ring-full exactly when (tail - head) mod 2^w is at least the capacity: a
\* typed submit that found an idle slot returns at once if and only if the
\* ring holds that many unconsumed entries, also once tail or
\* head + capacity has wrapped past zero.
C16_RefusesExactlyWhenFull ==
    [][(TypedCallStep /\ ~TableFull) =>
          (pc' = "idle" <=>
              USub(submissions.tail, submissions.head) >= SqEntries)]_vars

\* ---------------------------------------------------------- io_context_init

InitPcs == {"init_ops", "init_setup", "init_sq", "init_cq", "init_sqes",
            "init_done"}

\* What io_context_init leaves alone at every step.
InitFrame ==
    UNCHANGED <<submissions, completions, inflight, s_op, s_sqe, s_user,
                s_type, s_tail, w_head, w_op, ev, call, enterLog, posted,
                pending, freed, nsub>>

\* io_context_init is called: the table is the caller's memory, with
\* whatever it held; p is zeroed by memset; nothing is acquired yet. The
\* rings have the value the kernel will create them with.
PreInit ==
    /\ ops \in [Slots -> [type : Types \cup {"IO_VOID"},
                          user : Users \cup {NoVal}]]
    /\ submissions = [head |-> 0, tail |-> 0,
                      array |-> [i \in 0..(SqEntries - 1) |-> 0],
                      entries |-> [i \in 0..(SqEntries - 1) |-> NullSqe]]
    /\ completions = [head |-> 0, tail |-> 0,
                      entries |-> [i \in 0..(CqEntries - 1) |-> NullCqe]]
    /\ inflight = EmptyBag
    /\ pc = "init_ops"
    /\ s_op = 0
    /\ s_sqe = NullSqe
    /\ s_user = NoVal
    /\ s_type = "IO_VOID"
    /\ s_tail = 0
    /\ w_head = 0
    /\ w_op = 0
    /\ ev = EvUnset
    /\ call = "io_context_init"
    /\ ret = "running"
    /\ enterLog = << >>
    /\ posted = << >>
    /\ pending = {}
    /\ freed = 0
    /\ nsub = 0
    /\ held = {}
    /\ single_mmap = FALSE

\* for (i < max_ops) ioc->ops[i].type = IO_VOID
InitOps ==
    /\ pc = "init_ops"
    /\ ops' = [i \in Slots |-> [ops[i] EXCEPT !.type = "IO_VOID"]]
    /\ pc' = "init_setup"
    /\ InitFrame
    /\ UNCHANGED <<ret, held, single_mmap>>

\* io_uring_setup returned a descriptor and filled p.
SetupOk ==
    /\ pc = "init_setup"
    /\ held' = {"fd"}
    /\ single_mmap' \in BOOLEAN
    /\ pc' = "init_sq"
    /\ InitFrame
    /\ UNCHANGED <<ops, ret>>

\* io_uring_setup returned < 0: return false.
SetupFail ==
    /\ pc = "init_setup"
    /\ pc' = "init_done"
    /\ ret' = "false"
    /\ InitFrame
    /\ UNCHANGED <<ops, held, single_mmap>>

\* mmap of the submission ring succeeded; with IORING_FEAT_SINGLE_MMAP it is
\* the completion ring too (cq_ptr = sq_ptr).
MmapSqOk ==
    /\ pc = "init_sq"
    /\ held' = held \cup {"sq_ptr"}
    /\ pc' = IF single_mmap THEN "init_sqes" ELSE "init_cq"
    /\ InitFrame
    /\ UNCHANGED <<ops, ret, single_mmap>>

\* sq_ptr == MAP_FAILED: return false.
MmapSqFail ==
    /\ pc = "init_sq"
    /\ pc' = "init_done"
    /\ ret' = "false"
    /\ InitFrame
    /\ UNCHANGED <<ops, held, single_mmap>>

\* The separate mmap of the completion ring (older kernels) succeeded.
MmapCqOk ==
    /\ pc = "init_cq"
    /\ held' = held \cup {"cq_ptr"}
    /\ pc' = "init_sqes"
    /\ InitFrame
    /\ UNCHANGED <<ops, ret, single_mmap>>

\* cq_ptr == MAP_FAILED: return false.
MmapCqFail ==
    /\ pc = "init_cq"
    /\ pc' = "init_done"
    /\ ret' = "false"
    /\ InitFrame
    /\ UNCHANGED <<ops, held, single_mmap>>

\* mmap of the descriptor array succeeded: the fields are saved, return true.
MmapSqesOk ==
    /\ pc = "init_sqes"
    /\ held' = held \cup {"sqes"}
    /\ pc' = "init_done"
    /\ ret' = "true"
    /\ InitFrame
    /\ UNCHANGED <<ops, single_mmap>>

\* ioc->submissions.entries == MAP_FAILED: return false.
MmapSqesFail ==
    /\ pc = "init_sqes"
    /\ pc' = "init_done"
    /\ ret' = "false"
    /\ InitFrame
    /\ UNCHANGED <<ops, held, single_mmap>>

InitNext ==
    \/ InitOps
    \/ SetupOk
    \/ SetupFail
    \/ MmapSqOk
    \/ MmapSqFail
    \/ MmapCqOk
    \/ MmapCqFail
    \/ MmapSqesOk
    \/ MmapSqesFail

InitSpec == PreInit /\ [][InitNext]_vars

\* C12: when a step of io_context_init fails (io_uring_setup, the mapping
\* of the submission ring, of the completion ring or of the descriptor
\* array), the call returns false holding nothing: the descriptor and every
\* mapping it had made are released.
C12_FailureReleasesAll ==
    (pc = "init_done" /\ ret = "false") => held = {}

\* What io_context_init does establish: when it returns true every slot is
\* idle and it holds the descriptor, the ring mapping(s) and the descriptor
\* array, as Init has them on a kernel with IORING_FEAT_SINGLE_MMAP.
InitEstablished ==
    (pc = "init_done" /\ ret = "true") =>
        /\ \A i \in Slots : ops[i].type = "IO_VOID"
        /\ held = IF single_mmap THEN {"fd", "sq_ptr", "sqes"}
                  ELSE {"fd", "sq_ptr", "cq_ptr", "sqes"}
        /\ <<submissions, completions, inflight>> =
              <<[head |-> 0, tail |-> 0,
                 array |-> [i \in 0..(SqEntries - 1) |-> 0],
                 entries |-> [i \in 0..(SqEntries - 1) |-> NullSqe]],
                [head |-> 0, tail |-> 0,
                 entries |-> [i \in 0..(CqEntries - 1) |-> NullCqe]],
                EmptyBag>>

====
